---- MODULE Spec2Model ----
(***************************************************************************)
(* Model of tensorly/contrib/visualisation.py: the two public plotting     *)
(* entry points plot_kruskal_factors and plot_tucker_factors, the shared   *)
(* grid builder _plot_component_groups and the default renderer            *)
(* _line_plot, together with the part of matplotlib.pyplot / numpy the     *)
(* module relies on (subplots with squeeze=True, np.array([..]), .T,       *)
(* two-index addressing, column slicing).                                  *)
(*                                                                         *)
(* A factor matrix is represented by its number of columns (shape[1]);     *)
(* the column slice factors[mode][:, c] by the pair <<mode, column>>;      *)
(* an Axes object created by the backend by its grid position <<r, c>>.    *)
(***************************************************************************)
EXTENDS Integers, Sequences, FiniteSets, TLC

\* ---------------------------------------------------------------- bounds
MaxModes == 2       \* at most this many factor matrices
MaxRows == 2        \* at most this many explicit components / combinations
MaxR == 2           \* at most this many columns in a factor matrix
MaxOpenFigs == 1    \* figures the caller may already hold open in pyplot

\* ------------------------------------------------------- python helpers
None == <<>>                 \* an optional argument left at None
Some(x) == <<x>>             \* an optional argument that was given
IsNone(o) == o = <<>>
Get(o) == o[1]

Min(a, b) == IF a <= b THEN a ELSE b
Max(a, b) == IF a >= b THEN a ELSE b

\* [i for i in range(n)]: empty when n <= 0
Range(n) == [i \in 1 .. Max(n, 0) |-> i - 1]

\* tuple([i] * n)
Repeat(i, n) == [m \in 1 .. n |-> i]

SetMax(S) == IF S = {} THEN 0 ELSE CHOOSE x \in S : \A y \in S : y <= x

\* ---------------------------------------------------- numpy object arrays
\* An ndarray is its shape and its elements in row-major order; a bare
\* python object (one Axes) is the 0-dimensional case, shape <<>>.
Product(shape) == IF Len(shape) = 0 THEN 1
                  ELSE IF Len(shape) = 1 THEN shape[1]
                  ELSE shape[1] * shape[2]

\* the grid Figure.subplots builds before squeezing: Axes <<r, c>> at [r, c]
FullGrid(nrows, ncols) ==
    [shape |-> <<nrows, ncols>>,
     data  |-> [k \in 1 .. nrows * ncols |-> <<(k - 1) \div ncols, (k - 1) % ncols>>]]

\* squeeze=True of Figure.subplots: axarr.item() if axarr.size == 1 else axarr.squeeze()
Squeeze(a) ==
    IF Product(a.shape) = 1
    THEN [shape |-> <<>>, data |-> a.data]
    ELSE [shape |-> SelectSeq(a.shape, LAMBDA d : d # 1), data |-> a.data]

\* np.array([a])
Wrap(a) == [shape |-> <<1>> \o a.shape, data |-> a.data]

\* a.T
Transpose(a) ==
    IF Len(a.shape) < 2 THEN a
    ELSE LET rows == a.shape[1]
             cols == a.shape[2]
         IN [shape |-> <<cols, rows>>,
             data  |-> [k \in 1 .. rows * cols |->
                          a.data[((k - 1) % rows) * cols + ((k - 1) \div rows) + 1]]]

\* a[row, col] is legal
Addressable(a, row, col) ==
    /\ Len(a.shape) = 2
    /\ row >= 0 /\ row < a.shape[1]
    /\ col >= 0 /\ col < a.shape[2]

\* a[row, col]
Item(a, row, col) == a.data[row * a.shape[2] + col + 1]

\* ----------------------------------------------------------- the module
\* the cap applied without looking at the number of columns
DefaultLengthUncapped(R, max_len) == max_len

\* plot_kruskal_factors, lines 54-57
DefaultLength(R, max_len) == IF R >= max_len THEN max_len ELSE R

\* plot_kruskal_factors, line 60
KruskalCombinations(comps, nmodes) == [r \in 1 .. Len(comps) |-> Repeat(comps[r], nmodes)]

\* plot_tucker_factors, line 98
TuckerDefault(nmodes) == << Repeat(0, nmodes) >>

\* plt.figure(1) instead: draws into the caller's figure 1 when it is open
NewFigureReused(open) == 1

\* plt.subplots, line 132: pyplot numbers a new figure max(open numbers) + 1
NewFigure(open) == SetMax(open) + 1

\* zip(range(n_cols), group) instead: entries beyond the last column are dropped
GroupLengthZipped(group, ncols) == Min(Len(group), ncols)

\* line 148: enumerate(group) yields one (mode, n_component) per entry of group
GroupLength(group, ncols) == Len(group)

\* _plot_component_groups, lines 138-141
Normalise(a, nrows, ncols) ==
    IF nrows = 1 \/ ncols = 1
    THEN IF ncols = 1 THEN Transpose(Wrap(a)) ELSE Wrap(a)
    ELSE a

LinePlot == "_line_plot"
CustomPlot(k) == "custom_plot_" \o ToString(k)

\* _plot_component_groups, lines 143-145; custom is the set of keys of custom_plots
PlotBank(ncols, custom) ==
    [k \in (0 .. ncols - 1) \cup custom |-> IF k \in custom THEN CustomPlot(k) ELSE LinePlot]

\* an index check that forgets the lower end of the range
ColumnOkNoLowerEnd(R, c) == c < R

\* numpy accepts a column index c of a matrix with R columns iff -R <= c < R
ColumnOk(R, c) == c >= -R /\ c < R

\* factors[mode][:, c]
ColumnSlice(R, mode, c) == <<mode, IF c < 0 THEN c + R ELSE c>>

\* "Mode-{}, Component #{}".format(mode, n_component)
Title(mode, c) == "Mode-" \o ToString(mode) \o ", Component #" \o ToString(c)

\* ------------------------------------------------------------ the inputs
ComponentIndices == {-(MaxR + 1)} \cup (-1 .. MaxR)

\* factor matrices: the first with a columns, the others with b columns each
FactorShapes ==
    { [m \in 1 .. n |-> IF m = 1 THEN a ELSE b] :
      n \in 1 .. MaxModes, a \in 1 .. MaxR, b \in 1 .. MaxR }

ComponentLists == UNION { [1 .. n -> ComponentIndices] : n \in 0 .. MaxRows }

DefaultLengths == -1 .. MaxR + 1

\* keys of custom_plots: none (custom_plots=None or {}, which lines 144-145
\* treat alike), or one mode (the key len(factors) names no column)
CustomKeys(f) == {{}} \cup { {k} : k \in 0 .. Len(f) }

\* combination lists: n combinations with one in-range index per mode ...
Regular(f, n, seed) ==
    [r \in 1 .. n |-> [m \in 1 .. Len(f) |-> (seed + (r - 1) + (m - 1)) % f[m]]]

\* ... and the same with one combination shortened, lengthened or with one
\* index replaced
Variants(c, f) ==
    {c}
    \cup { [c EXCEPT ![d] = SubSeq(@, 1, Len(@) - 1)] : d \in 1 .. Len(c) }
    \cup { [c EXCEPT ![d] = Append(@, 0)] : d \in 1 .. Len(c) }
    \cup UNION { { [c EXCEPT ![d][p] = v] : v \in ComponentIndices } :
                 d \in 1 .. Len(c), p \in 1 .. Len(f) }

CombinationLists(f) ==
    UNION { Variants(Regular(f, n, seed), f) : n \in 0 .. MaxRows, seed \in 0 .. MaxR - 1 }

KruskalArgs ==
    { [entry |-> "kruskal", factors |-> f, components |-> c,
       max_default_length |-> IF IsNone(c) THEN l ELSE 5,
       combinations |-> None, custom_plots |-> k] :
      f \in FactorShapes,
      c \in {None} \cup { Some(x) : x \in ComponentLists },
      l \in DefaultLengths,
      k \in UNION { CustomKeys(g) : g \in FactorShapes } }

TuckerArgs ==
    UNION { { [entry |-> "tucker", factors |-> f, components |-> None,
               max_default_length |-> 5,
               combinations |-> c, custom_plots |-> k] :
              c \in {None} \cup { Some(x) : x \in CombinationLists(f) },
              k \in CustomKeys(f) } :
            f \in FactorShapes }

\* ------------------------------------------------------------- the state
VARIABLES
    args,          \* the arguments of the call
    open0,         \* the figures open in pyplot when the call starts
    figures,       \* the figures open in pyplot (figure numbers)
    components,    \* plot_kruskal_factors: components
    combinations,  \* combinations, as seen by _plot_component_groups
    n_rows, n_cols,
    fig,           \* the figure number subplots returned, 0 before
    axis,          \* the ndarray (or bare Axes) bound to axis
    plot_bank,
    row, mode,     \* position of the two enumerate loops
    events,        \* the calls made on the backend, in order
    pc,
    outcome,       \* "running", "returned" or the exception that propagated
    result         \* what the caller received: None or Some(<<fig, axis>>)

vars == <<args, open0, figures, components, combinations, n_rows, n_cols, fig,
          axis, plot_bank, row, mode, events, pc, outcome, result>>

NoArray == [shape |-> <<>>, data |-> <<>>]

Init ==
    /\ args \in { a \in KruskalArgs \cup TuckerArgs :
                    a.custom_plots \in CustomKeys(a.factors) }
    /\ open0 \in { {}, 1 .. MaxOpenFigs }
    /\ figures = open0
    /\ components = <<>>
    /\ combinations = <<>>
    /\ n_rows = 0
    /\ n_cols = 0
    /\ fig = 0
    /\ axis = NoArray
    /\ plot_bank = << >>
    /\ row = 0
    /\ mode = 0
    /\ events = <<>>
    /\ pc = "call"
    /\ outcome = "running"
    /\ result = None

Raise(exc) ==
    /\ pc' = "done"
    /\ outcome' = exc

\* plot_kruskal_factors, lines 53-62
PlotKruskalFactors ==
    /\ pc = "call"
    /\ args.entry = "kruskal"
    /\ LET comps == IF IsNone(args.components)
                    THEN Range(DefaultLength(args.factors[1], args.max_default_length))
                    ELSE Get(args.components)
       IN /\ components' = comps
          /\ combinations' = KruskalCombinations(comps, Len(args.factors))
    /\ pc' = "groups"
    /\ UNCHANGED <<args, open0, figures, n_rows, n_cols, fig, axis, plot_bank,
                   row, mode, events, outcome, result>>

\* plot_tucker_factors, lines 97-100
PlotTuckerFactors ==
    /\ pc = "call"
    /\ args.entry = "tucker"
    /\ combinations' = IF IsNone(args.combinations)
                       THEN TuckerDefault(Len(args.factors))
                       ELSE Get(args.combinations)
    /\ pc' = "groups"
    /\ UNCHANGED <<args, open0, figures, components, n_rows, n_cols, fig, axis,
                   plot_bank, row, mode, events, outcome, result>>

\* _plot_component_groups, lines 128-135: plt.subplots creates figure number
\* max(open)+1 and the squeezed grid of Axes.  For an empty grid the backend
\* either refuses (newer matplotlib: ValueError raised by GridSpec after the
\* figure exists) or returns the squeezed empty array (older matplotlib).
Subplots ==
    /\ pc = "groups"
    /\ LET nr == Len(combinations)
           nc == Len(args.factors)
           num == NewFigure(figures)
       IN /\ n_rows' = nr
          /\ n_cols' = nc
          /\ figures' = figures \cup {num}
          /\ \/ /\ nr * nc = 0
                /\ Raise("ValueError")
                /\ UNCHANGED <<fig, axis>>
             \/ /\ fig' = num
                /\ axis' = Squeeze(FullGrid(nr, nc))
                /\ pc' = "normalise"
                /\ UNCHANGED outcome
    /\ UNCHANGED <<args, open0, components, combinations, plot_bank, row, mode,
                   events, result>>

\* _plot_component_groups, lines 137-141
NormaliseAxis ==
    /\ pc = "normalise"
    /\ axis' = Normalise(axis, n_rows, n_cols)
    /\ pc' = "plot_bank"
    /\ UNCHANGED <<args, open0, figures, components, combinations, n_rows, n_cols,
                   fig, plot_bank, row, mode, events, outcome, result>>

\* _plot_component_groups, lines 143-145
BuildPlotBank ==
    /\ pc = "plot_bank"
    /\ plot_bank' = PlotBank(n_cols, args.custom_plots)
    /\ pc' = "loop"
    /\ UNCHANGED <<args, open0, figures, components, combinations, n_rows, n_cols,
                   fig, axis, row, mode, events, outcome, result>>

PlotEvent(ax, fn, data) == [kind |-> "plot", ax |-> ax, fn |-> fn, data |-> data, title |-> ""]
TitleEvent(ax, t) == [kind |-> "set_title", ax |-> ax, fn |-> "", data |-> <<>>, title |-> t]
LayoutEvent == [kind |-> "tight_layout", ax |-> <<>>, fn |-> "", data |-> <<>>, title |-> ""]

\* the events of one pass through the loop body, lines 153-155
PanelEvents(ax, fn, data, title) == << PlotEvent(ax, fn, data), TitleEvent(ax, title) >>

\* _plot_component_groups, lines 148-155: one pass through the inner loop
PlotPanel ==
    /\ pc = "loop"
    /\ row < Len(combinations)
    /\ mode < GroupLength(combinations[row + 1], n_cols)
    /\ LET n_component == combinations[row + 1][mode + 1]
           col == mode
       IN IF mode \notin DOMAIN plot_bank
          THEN Raise("KeyError") /\ UNCHANGED <<mode, events>>
          ELSE IF mode >= Len(args.factors)
          THEN Raise("IndexError") /\ UNCHANGED <<mode, events>>
          ELSE IF ~ColumnOk(args.factors[mode + 1], n_component)
          THEN Raise("IndexError") /\ UNCHANGED <<mode, events>>
          ELSE IF ~Addressable(axis, row, col)
          THEN Raise("IndexError") /\ UNCHANGED <<mode, events>>
          ELSE /\ events' = events \o PanelEvents(Item(axis, row, col), plot_bank[mode],
                                ColumnSlice(args.factors[mode + 1], mode, n_component),
                                Title(mode, n_component))
               /\ mode' = mode + 1
               /\ UNCHANGED <<pc, outcome>>
    /\ UNCHANGED <<args, open0, figures, components, combinations, n_rows, n_cols,
                   fig, axis, plot_bank, row, result>>

\* line 147-148: the inner enumerate is exhausted, the outer one advances
NextRow ==
    /\ pc = "loop"
    /\ row < Len(combinations)
    /\ mode = GroupLength(combinations[row + 1], n_cols)
    /\ row' = row + 1
    /\ mode' = 0
    /\ UNCHANGED <<args, open0, figures, components, combinations, n_rows, n_cols,
                   fig, axis, plot_bank, events, pc, outcome, result>>

\* lines 156-157 (and the entry point's own return, lines 66 / 104)
TightLayout ==
    /\ pc = "loop"
    /\ row = Len(combinations)
    /\ events' = Append(events, LayoutEvent)
    /\ result' = Some(<<fig, axis>>)
    /\ pc' = "done"
    /\ outcome' = "returned"
    /\ UNCHANGED <<args, open0, figures, components, combinations, n_rows, n_cols,
                   fig, axis, plot_bank, row, mode>>

Next ==
    \/ PlotKruskalFactors
    \/ PlotTuckerFactors
    \/ Subplots
    \/ NormaliseAxis
    \/ BuildPlotBank
    \/ PlotPanel
    \/ NextRow
    \/ TightLayout

Spec == Init /\ [][Next]_vars

\* ------------------------------------------------------------ properties
NF == Len(args.factors)
Done == pc = "done"
Returned == outcome = "returned"
Failed == outcome \in {"IndexError", "KeyError"}

\* the normalisation step of _plot_component_groups has run
Normalised == pc \in {"plot_bank", "loop"} \/ (pc = "done" /\ fig # 0)

\* the rows the caller asked for
RequestedRows ==
    IF args.entry = "kruskal"
    THEN Len(components)
    ELSE IF IsNone(args.combinations) THEN 1 ELSE Len(Get(args.combinations))

\* every combination has one index in 0 .. R_m - 1 per mode
WellFormed ==
    \A r \in 1 .. Len(combinations) :
        /\ Len(combinations[r]) = NF
        /\ \A m \in 1 .. NF : combinations[r][m] \in 0 .. args.factors[m] - 1

PlotsOn(ax) == { i \in 1 .. Len(events) : events[i].kind = "plot" /\ events[i].ax = ax }
TitlesOn(ax) == { i \in 1 .. Len(events) : events[i].kind = "set_title" /\ events[i].ax = ax }
Layouts == { i \in 1 .. Len(events) : events[i].kind = "tight_layout" }

\* C1: once normalised, the panel grid has len(combinations) rows and
\* len(factors) columns, for every list length and every number of factors.
C1_GridShape ==
    Normalised =>
        /\ Len(axis.shape) = 2
        /\ axis.shape[1] = RequestedRows
        /\ axis.shape[2] = NF

\* C2: after the normalisation step axis[row, col] is legal for every row and
\* column of the grid and is the panel the backend created at that place; a
\* call with one factor matrix and one combination returns.
C2_TwoIndexAddressable ==
    /\ Normalised =>
          \A r \in 0 .. n_rows - 1, c \in 0 .. n_cols - 1 :
              Addressable(axis, r, c) /\ Item(axis, r, c) = <<r, c>>
    /\ (Done /\ n_rows = 1 /\ n_cols = 1 /\ WellFormed) => Returned

C4_TuckerRows ==
    (Done /\ args.entry = "tucker" /\ WellFormed) =>
        LET want == IF IsNone(args.combinations)
                    THEN << [m \in 1 .. NF |-> 0] >>
                    ELSE Get(args.combinations)
            plots == SelectSeq(events, LAMBDA e : e.kind = "plot")
        IN /\ Len(plots) = Len(want) * NF
           /\ \A k \in 1 .. Len(plots) :
                 LET r == (k - 1) \div NF
                     m == (k - 1) % NF
                 IN /\ plots[k].ax = <<r, m>>
                    /\ plots[k].data = <<m, want[r + 1][m + 1]>>

\* C5: in a call whose combinations have one in-range index per mode, the
\* panel at grid position [r, m] is drawn with factors[m][:, c] and titled
\* "Mode-m, Component #c", c = combinations[r][m], and with nothing else.
C5_PanelShowsItsSlice ==
    (Done /\ WellFormed) =>
        \A r \in 0 .. Len(combinations) - 1, m \in 0 .. NF - 1 :
            /\ Addressable(axis, r, m)
            /\ LET c == combinations[r + 1][m + 1]
                   panel == Item(axis, r, m)
               IN /\ Cardinality(PlotsOn(panel)) = 1
                  /\ Cardinality(TitlesOn(panel)) = 1
                  /\ \A i \in PlotsOn(panel) : events[i].data = <<m, c>>
                  /\ \A i \in TitlesOn(panel) :
                        events[i].title =
                            "Mode-" \o ToString(m) \o ", Component #" \o ToString(c)

\* C6: every panel of column m is drawn by custom_plots[m] when m is a key of
\* custom_plots and by the default line renderer otherwise.
C6_RendererOfColumn ==
    (Done /\ WellFormed) =>
        \A r \in 0 .. Len(combinations) - 1, m \in 0 .. NF - 1 :
            /\ Addressable(axis, r, m)
            /\ PlotsOn(Item(axis, r, m)) # {}
            /\ \A i \in PlotsOn(Item(axis, r, m)) :
                  events[i].fn = IF m \in args.custom_plots
                                 THEN "custom_plot_" \o ToString(m)
                                 ELSE "_line_plot"

\* C7 as stated: a call with a combination shorter or longer than
\* len(factors) ends in an index or mapping-lookup error.
C7_MismatchFails ==
    (Done /\ \E r \in 1 .. Len(combinations) : Len(combinations[r]) # NF) => Failed

\* C7 amended: a call with a combination longer than len(factors) ends in an
\* index or mapping-lookup error; a shorter combination is not detected, and a
\* call that returns has drawn, in each row, exactly the modes its combination
\* names.
C7_LongerFails ==
    /\ (Done /\ \E r \in 1 .. Len(combinations) : Len(combinations[r]) > NF) => Failed
    /\ (Done /\ Returned) =>
          \A r \in 1 .. Len(combinations) :
              /\ Len(combinations[r]) <= NF
              /\ \A m \in 0 .. NF - 1 :
                    (PlotsOn(<<r - 1, m>>) # {}) <=> (m < Len(combinations[r]))

\* a combination with one entry too many stopped the call at the renderer
\* lookup, after the panels before it were drawn
C7_Witness ==
    /\ Done /\ outcome = "KeyError"
    /\ \E r \in 1 .. Len(combinations) : Len(combinations[r]) > NF
    /\ events # <<>>

\* an index of combination r for mode m (0-based) outside the set ok(R_m)
BadIndex(r, m, lo, hi) ==
    /\ m < Len(combinations[r + 1])
    /\ m < NF
    /\ ~(combinations[r + 1][m + 1] \in lo .. hi)

\* C8 as stated: an index outside 0 .. R_m - 1 (too large or negative) makes
\* the call end in an index error, with no panel drawn or titled for it.
C8_OutsideColumnsFails ==
    Done =>
        \A r \in 0 .. Len(combinations) - 1, m \in 0 .. NF - 1 :
            BadIndex(r, m, 0, args.factors[m + 1] - 1) =>
                /\ Failed
                /\ PlotsOn(<<r, m>>) = {}
                /\ TitlesOn(<<r, m>>) = {}

\* C8 amended: an index outside -R_m .. R_m - 1 makes the call end in an index
\* (or lookup) error, with no panel drawn or titled for it; an index in
\* -R_m .. -1 is accepted: a panel drawn for it shows column R_m + c and is
\* titled with c.
C8_OutsideNumpyRangeFails ==
    Done =>
        \A r \in 0 .. Len(combinations) - 1, m \in 0 .. NF - 1 :
            /\ BadIndex(r, m, -args.factors[m + 1], args.factors[m + 1] - 1) =>
                  /\ Failed
                  /\ PlotsOn(<<r, m>>) = {}
                  /\ TitlesOn(<<r, m>>) = {}
            /\ \A i \in PlotsOn(<<r, m>>) :
                  LET c == combinations[r + 1][m + 1]
                      R == args.factors[m + 1]
                  IN /\ c \in -R .. R - 1
                     /\ events[i].data = <<m, IF c < 0 THEN R + c ELSE c>>
                     /\ \A j \in TitlesOn(<<r, m>>) :
                           events[j].title =
                               "Mode-" \o ToString(m) \o ", Component #" \o ToString(c)

\* an index beyond the numpy range stopped the call with an IndexError after
\* earlier panels were drawn
C8_Witness ==
    /\ Done /\ outcome = "IndexError"
    /\ events # <<>>
    /\ \E r \in 0 .. Len(combinations) - 1, m \in 0 .. NF - 1 :
          BadIndex(r, m, -args.factors[m + 1], args.factors[m + 1] - 1)

\* C9 as stated: no execution ends with a figure that the call allocated and
\* the caller did not receive.
C9_NoFigureLeftBehind ==
    Done => \A f \in figures \ open0 : ~IsNone(result) /\ Get(result)[1] = f

\* C9 amended: a call that returns hands the caller a figure that did not
\* exist before the call and is still open, together with the grid; the call
\* never closes a figure and allocates at most one.
C9_ReturnedFigureIsFresh ==
    /\ Returned =>
          /\ result = Some(<<fig, axis>>)
          /\ fig \notin open0
          /\ figures = open0 \cup {fig}
    /\ ~Returned => IsNone(result)
    /\ open0 \subseteq figures
    /\ Cardinality(figures \ open0) <= 1

\* a call returned while the caller held another figure open
C9_Witness ==
    /\ Done /\ Returned
    /\ open0 # {}
    /\ Cardinality(figures) = Cardinality(open0) + 1

\* C10: on well-formed input the backend sees, row by row and mode by mode,
\* one rendering call then one set_title for each panel of the grid, and then
\* one tight_layout, after which the call returns.
C10_CallOrder ==
    (Done /\ WellFormed /\ Len(combinations) >= 1) =>
        /\ Returned
        /\ Len(events) = 2 * Len(combinations) * NF + 1
        /\ \A k \in 1 .. Len(combinations) * NF :
              LET ax == <<(k - 1) \div NF, (k - 1) % NF>>
              IN /\ events[2 * k - 1].kind = "plot"
                 /\ events[2 * k - 1].ax = ax
                 /\ events[2 * k].kind = "set_title"
                 /\ events[2 * k].ax = ax
        /\ Layouts = {Len(events)}
====
